---- MODULE Spec2Model ----
(***************************************************************************)
(* A model of server/server.js: the rate limiters, the GET routes and the  *)
(* POST routes for courses, sections, links, link clicks, verification     *)
(* codes and reports.  Every route handler is an async function; each      *)
(* action below is one synchronous segment of a handler, i.e. the code     *)
(* that runs between two awaits.  The limiters of a route run in the       *)
(* segment the request arrives in.  The document store executes one query  *)
(* or one update at a time.                                                *)
(***************************************************************************)
EXTENDS Integers, Sequences, FiniteSets, TLC

VARIABLES
    courses,    \* the Course collection, in insertion (natural) order
    reports,    \* the Report collection
    verifier,   \* app.verifier: identity -> issued code and its age
    outbox,     \* the e-mails handed to the provider by sendCode
    req,        \* request -> what the client sent
    pc,         \* request -> the await its handler is suspended at
    resp,       \* request -> the status it was answered with, 0 while open
    hits        \* rate limiter -> key -> the requests counted in its window

vars == <<courses, reports, verifier, outbox, req, pc, resp, hits>>

----------------------------------------------------------------------------
(* Bounds of the model *)

\* the number of requests of one run
NumReqs == 2

\* the number of requests of a run that is about one rate limiter
Burst == 5

(* Program constants *)

CREATED == 201
BAD_REQUEST == 400
UNAUTHORIZED == 401
GONE == 410
NOT_FOUND == 404
CONFLICT == 409
SERVER_ERROR == 500
UNPROCESSABLE == 422
ACCEPTED == 202
OK == 200
TOO_MANY == 429

\* codeTime < 15: the resend cooldown of POST /verify/create, in minutes
Cooldown == 15

\* the time a code of the Verifier stays valid, in minutes
TTL == 15

\* what the Verifier answers for an identity without a record
Undefined == -1

Reqs == DOMAIN pc

----------------------------------------------------------------------------
(* Strings are sequences of characters *)

\* String.prototype.toUpperCase, on one character
UpperChar(c) ==
    CASE c = "l" -> "L"
      [] c = "e" -> "E"
      [] OTHER -> c

\* String.prototype.toUpperCase
ToUpperCase(s) == [i \in 1 .. Len(s) |-> UpperChar(s[i])]

RECURSIVE TrimStart(_)
TrimStart(s) ==
    IF s /= <<>> /\ Head(s) = " " THEN TrimStart(Tail(s)) ELSE s

RECURSIVE TrimEnd(_)
TrimEnd(s) ==
    IF s /= <<>> /\ s[Len(s)] = " " THEN TrimEnd(SubSeq(s, 1, Len(s) - 1)) ELSE s

\* String.prototype.trim
Trim(s) == TrimEnd(TrimStart(s))

\* req.params.code.trim().toUpperCase()
ParamCode(s) == ToUpperCase(Trim(s))

\* username.replaceAll("@", "")
StripAt(s) == SelectSeq(s, LAMBDA c : c /= "@")

\* `${req.body.faculty}${req.body.subject}${req.body.number}${req.body.credits}`
RawCode(b) == b.faculty \o b.subject \o b.number \o b.credits

\* the code the Course schema derives for a new document
DerivedCode(b) == Trim(ToUpperCase(RawCode(b)))

\* a string of a request is falsy when it is absent or empty
Present(s) == s /= <<>>

\* the same for the strings the model does not take apart
Given(s) == s /= ""

\* a number is falsy when it is undefined or 0
TruthyNum(n) == n /= Undefined /\ n /= 0

\* verifyReCaptcha: the provider accepts the token or not
verifyReCaptcha(token) == token = "good"

----------------------------------------------------------------------------
(* The document store: Course documents with embedded sections and links *)

NewCourse(code) == [code |-> code, sections |-> <<>>]

\* new Section(req.body)
NewSection(name) == [name |-> name, links |-> <<>>]

\* new Link({...req.body, createdAt, updatedAt}): clicks starts at 0
NewLink(url) == [url |-> url, clicks |-> 0]

\* the query {"sections.name": name} on one document
HasSection(c, name) == \E j \in 1 .. Len(c.sections) : c.sections[j].name = name

HasLink(sec, url) == \E k \in 1 .. Len(sec.links) : sec.links[k].url = url

\* the query {"sections.links.url": url} on one document: any section will do
HasUrl(c, url) == \E j \in 1 .. Len(c.sections) : HasLink(c.sections[j], url)

\* Model.findOne: the first document, in natural order, among those that
\* match; 0 for null
FindOne(found) ==
    IF found = {} THEN 0 ELSE CHOOSE i \in found : \A h \in found : i <= h

\* {code: `${faculty}${subject}${number}${credits}`}
CourseQuery(b) ==
    FindOne({i \in 1 .. Len(courses) : courses[i].code = RawCode(b)})

\* {code: code, "sections.name": req.body.name}
SectionQuery(code, name) ==
    FindOne({i \in 1 .. Len(courses) :
                courses[i].code = code /\ HasSection(courses[i], name)})

\* {code: code}
CodeQuery(code) == FindOne({i \in 1 .. Len(courses) : courses[i].code = code})

\* {code: code, "sections.name": section, "sections.links.url": url}
LinkQuery(code, section, url) ==
    FindOne({i \in 1 .. Len(courses) :
                /\ courses[i].code = code
                /\ HasSection(courses[i], section)
                /\ HasUrl(courses[i], url)})

\* the positional operator $: the first element of sections the query matched
Positional(c, section) ==
    CHOOSE j \in 1 .. Len(c.sections) :
        /\ c.sections[j].name = section
        /\ \A h \in 1 .. j - 1 : c.sections[h].name /= section

\* Course.create(req.body)
CreateCourse(b) == Append(courses, NewCourse(DerivedCode(b)))

\* {$push: {sections: section}} on document i
PushSection(i, name) ==
    [courses EXCEPT ![i].sections = Append(@, NewSection(name))]

\* {$push: {"sections.$.links": link}} on document i
PushLink(i, section, url) ==
    [courses EXCEPT ![i].sections[Positional(courses[i], section)].links =
                        Append(@, NewLink(url))]

\* {$inc: {"sections.$[sec].links.$[link].clicks": 1}} with the arrayFilters
\* {"sec.links.url": url} and {"link.url": url}, on document i
\* a counter that is written, not incremented
IncLinkLost(l, url) == IF l.url = url THEN [l EXCEPT !.clicks = 1] ELSE l

IncLink(l, url) == IF l.url = url THEN [l EXCEPT !.clicks = @ + 1] ELSE l

IncSection(sec, url) ==
    IF HasLink(sec, url)
    THEN [sec EXCEPT !.links = [k \in 1 .. Len(sec.links) |-> IncLink(sec.links[k], url)]]
    ELSE sec

IncClicks(i, url) ==
    [courses EXCEPT ![i].sections =
        [j \in 1 .. Len(courses[i].sections) |-> IncSection(courses[i].sections[j], url)]]

----------------------------------------------------------------------------
(* The Verifier (mod/verifier): one record per identity, held in memory *)

NoRecord == [code |-> 0, age |-> 0]

\* app.verifier.hasCode
hasCode(id) == verifier[id] /= NoRecord

\* app.verifier.checkCodeTime: the minutes since the code was issued
checkCodeTime(id) == IF hasCode(id) THEN verifier[id].age ELSE Undefined

\* app.verifier.checkCode: the comparison
checkCode(id, code) == hasCode(id) /\ verifier[id].code = code

\* app.verifier.checkCode: a code that matched is used up
AfterCheck(id, code) ==
    IF checkCode(id, code) THEN [verifier EXCEPT ![id] = NoRecord] ELSE verifier

\* app.verifier.createCode: the new record replaces the old one
createCode(id, code) == [verifier EXCEPT ![id] = [code |-> code, age |-> 0]]

\* a minute passes: every code ages, and a code of age TTL is dropped
Aged(rec) ==
    IF rec = NoRecord \/ rec.age + 1 >= TTL THEN NoRecord
    ELSE [rec EXCEPT !.age = @ + 1]

----------------------------------------------------------------------------
(* Requests *)

Blank ==
    [kind |-> "none", faculty |-> <<>>, subject |-> <<>>, number |-> <<>>,
     credits |-> <<>>, code |-> <<>>, name |-> "", url |-> "",
     username |-> <<>>, vcode |-> 0, captcha |-> "", send |-> 0,
     ip |-> "ip1"]

\* the captcha tokens a client may send: none, a rejected one, an accepted one
Tokens == {"", "bad", "good"}

\* the callers of a run are the addresses the per-caller limiters count
Callers == DOMAIN hits["verifyLimiter"]

Faculties == {<<"L">>, <<"l">>, <<" ", "L">>}
CodeX == <<"L", "E", "1", "3">>
Params == {<<"l", "e", "1", "3", " ">>}
Names == {"A", "B"}
NewNames == {"B", "C"}
Urls == {"u1", "u2"}
Usernames == {<<"a", "@", "y">>, <<"b", "@", "y">>}

\* the identities of a run are those the Verifier keeps a record for
Identities == DOMAIN verifier
Known(b) == StripAt(b.username) \in Identities
Codes == {1, 2}
SendResults == {ACCEPTED, UNPROCESSABLE, SERVER_ERROR}

CourseBodies ==
    {[Blank EXCEPT !.kind = "course", !.name = "Intro", !.faculty = f,
                   !.subject = <<"E">>, !.number = <<"1">>, !.credits = <<"3">>,
                   !.captcha = t] : f \in Faculties, t \in Tokens}

SectionBodies ==
    {[Blank EXCEPT !.kind = "section", !.code = c, !.name = n, !.captcha = t] :
        c \in Params, n \in NewNames, t \in Tokens}

LinkBodies ==
    {[Blank EXCEPT !.kind = "link", !.code = c, !.name = n, !.url = u,
                   !.username = w, !.vcode = v] :
        c \in Params, n \in Names, u \in Urls, w \in Usernames, v \in Codes}

ClickBodies ==
    {[Blank EXCEPT !.kind = "click", !.code = c, !.name = n, !.url = u] :
        c \in Params, n \in Names, u \in Urls}

VerifyBodies ==
    {[Blank EXCEPT !.kind = "verify", !.username = w, !.captcha = t] :
        w \in Usernames, t \in Tokens}

\* the GET requests: the routes without a parameter, and those for a course
ReadBodies(kind) == {[Blank EXCEPT !.kind = kind]}
CourseReadBodies(kind) ==
    {[Blank EXCEPT !.kind = kind, !.code = c] :
        c \in Params \cup {<<" ">>}}

\* a request to a route behind linkClicksLimiter
TightBodies == {[Blank EXCEPT !.kind = "tight"]}

ReportBodies ==
    {[Blank EXCEPT !.kind = "report", !.name = "reason", !.url = "link_id",
                   !.captcha = t] : t \in Tokens}

\* the requests of a route as the callers of the run send them
Sent(bodies) == {[b EXCEPT !.ip = ip] : b \in bodies, ip \in Callers}

\* requests are numbered in the order they arrive: r is the next to arrive
Due(r) ==
    /\ pc[r] = "idle"
    /\ IF r = 1 THEN TRUE ELSE pc[r - 1] /= "idle"

\* the request r arrives with the body b
Arrives(r, b) ==
    /\ Due(r)
    /\ req' = [req EXCEPT ![r] = b]

\* the handler of r is suspended at an await
At(r, kind, label) == req[r].kind = kind /\ pc[r] = label

\* return res.status(status).json(...)
Reply(r, status) ==
    /\ pc' = [pc EXCEPT ![r] = "done"]
    /\ resp' = [resp EXCEPT ![r] = status]

\* await: the handler continues in a later step
Await(r, label) ==
    /\ pc' = [pc EXCEPT ![r] = label]
    /\ UNCHANGED resp

----------------------------------------------------------------------------
(* Rate limiters *)

\* the options every limiter is created with
Limiters ==
    [newCourseLimiter      |-> [windowMs |-> 24 * 60 * 60 * 1000, max |-> 10, key |-> "ip"],
     newLinkLimiter        |-> [windowMs |-> 60 * 1000, max |-> 30, key |-> "ip"],
     newSectionLimiter     |-> [windowMs |-> 24 * 60 * 60 * 1000, max |-> 10, key |-> "ip"],
     courseSearchLimiter   |-> [windowMs |-> 1000, max |-> 100, key |-> "ip"],
     courseInfoLimiter     |-> [windowMs |-> 1000, max |-> 20, key |-> "ip"],
     linkClicksLimiter     |-> [windowMs |-> 60 * 1000, max |-> 3, key |-> "ip"],
     linkClicksLongLimiter |-> [windowMs |-> 60 * 60 * 1000, max |-> 10, key |-> "ip"],
     reportLimiter         |-> [windowMs |-> 60 * 1000, max |-> 1, key |-> "ip"],
     verifyLimiter         |-> [windowMs |-> 60 * 1000, max |-> 1, key |-> "ip"],
     verifySpamLimiter     |-> [windowMs |-> 60 * 60 * 24 * 1000, max |-> 300, key |-> "ALL"]]

\* the limiters a route is mounted behind, in the order they run
Chain ==
    [course  |-> <<"newCourseLimiter">>,
     section |-> <<"newSectionLimiter">>,
     link    |-> <<"newLinkLimiter">>,
     click   |-> <<"newLinkLimiter">>,
     verify  |-> <<"verifyLimiter", "verifySpamLimiter">>,
     report  |-> <<"reportLimiter">>,
     root    |-> <<"courseSearchLimiter">>,
     list    |-> <<"courseSearchLimiter">>,
     stats   |-> <<"courseSearchLimiter">>,
     clicks  |-> <<"newLinkLimiter">>,
     info    |-> <<"courseInfoLimiter">>,
     tight   |-> <<"linkClicksLimiter">>]

\* a limiter that counts every caller under one key
KeyShared(t, b) == IF Limiters[t].key = "ip" THEN "ip1" ELSE Limiters[t].key

\* keyGenerator: the caller's address unless the limiter names a key
KeyOf(t, b) == IF Limiters[t].key = "ip" THEN b.ip ELSE Limiters[t].key

\* a limiter that lets one more request pass
FullLate(t, b) == hits[t][KeyOf(t, b)] > Limiters[t].max

\* the limiter counted max requests of the key in this window: it answers the
\* next one itself
Full(t, b) == hits[t][KeyOf(t, b)] >= Limiters[t].max

\* the limiters of the chain that see the request: each one that is reached
\* only when those before it called next()
Reached(chain, b) ==
    {chain[i] : i \in {i \in 1 .. Len(chain) : \A j \in 1 .. i - 1 : ~Full(chain[j], b)}}

\* every limiter that sees the request counts it, whether it lets it pass or not
Counted(chain, b) ==
    [t \in DOMAIN hits |->
        IF t \in Reached(chain, b)
        THEN [hits[t] EXCEPT ![KeyOf(t, b)] = @ + 1]
        ELSE hits[t]]

\* limiters that let every request pass
Unlimited(chain, b) == FALSE

\* some limiter of the chain calls limiterHandler
Limited(chain, b) == \E i \in 1 .. Len(chain) : Full(chain[i], b)

\* the hits a limiter starts a window with
NoHits(t) == [k \in DOMAIN hits[t] |-> 0]

\* the interval timer of a limiter fires: its window ends
WindowEnds(t) ==
    /\ hits[t] /= NoHits(t)
    /\ hits' = [hits EXCEPT ![t] = NoHits(t)]
    /\ UNCHANGED <<courses, reports, verifier, outbox, req, pc, resp>>

\* the hits after a minute: every window that is no longer than a minute ended
AfterMinute ==
    [t \in DOMAIN hits |-> IF Limiters[t].windowMs <= 60 * 1000 THEN NoHits(t) ELSE hits[t]]

\* linkClicksLimiter as the only middleware of a route: it answers the
\* request or calls next()
Tight(r) ==
    /\ Due(r)
    /\ \E b \in Sent(TightBodies) :
        /\ Arrives(r, b)
        /\ hits' = Counted(Chain.tight, b)
        /\ IF Limited(Chain.tight, b) THEN Reply(r, TOO_MANY) ELSE Await(r, "next")
        /\ UNCHANGED <<courses, reports, verifier, outbox>>

----------------------------------------------------------------------------
(* The GET routes: they read the store and leave it as it is *)

\* GET /
GetRoot(r) ==
    /\ Due(r)
    /\ \E b \in Sent(ReadBodies("root")) :
        /\ Arrives(r, b)
        /\ hits' = Counted(Chain.root, b)
        /\ IF Limited(Chain.root, b) THEN Reply(r, TOO_MANY) ELSE Reply(r, OK)
        /\ UNCHANGED <<courses, reports, verifier, outbox>>

\* GET /courses, up to the await of Course.find
GetCourses(r) ==
    /\ Due(r)
    /\ \E b \in Sent(ReadBodies("list")) :
        /\ Arrives(r, b)
        /\ hits' = Counted(Chain.list, b)
        /\ IF Limited(Chain.list, b) THEN Reply(r, TOO_MANY) ELSE Await(r, "find")
        /\ UNCHANGED <<courses, reports, verifier, outbox>>

GetCoursesFound(r) ==
    /\ At(r, "list", "find")
    /\ Reply(r, OK)
    /\ UNCHANGED <<courses, reports, verifier, outbox, req, hits>>

\* GET /stats, up to the first await of a count
GetStats(r) ==
    /\ Due(r)
    /\ \E b \in Sent(ReadBodies("stats")) :
        /\ Arrives(r, b)
        /\ hits' = Counted(Chain.stats, b)
        /\ IF Limited(Chain.stats, b) THEN Reply(r, TOO_MANY) ELSE Await(r, "find")
        /\ UNCHANGED <<courses, reports, verifier, outbox>>

\* the store answered the three counts
GetStatsFound(r) ==
    /\ At(r, "stats", "find")
    /\ Reply(r, OK)
    /\ UNCHANGED <<courses, reports, verifier, outbox, req, hits>>

\* GET /courses/:code/stats, up to the await of getCourseLinkClicks
GetCourseStats(r) ==
    /\ Due(r)
    /\ \E b \in Sent(CourseReadBodies("clicks")) :
        /\ Arrives(r, b)
        /\ hits' = Counted(Chain.clicks, b)
        /\ IF Limited(Chain.clicks, b) THEN Reply(r, TOO_MANY)
           ELSE IF Present(ParamCode(b.code)) THEN Await(r, "find")
           ELSE Reply(r, BAD_REQUEST)
        /\ UNCHANGED <<courses, reports, verifier, outbox>>

\* the click count of the course: none when no course has the code or the
\* course has no link
getCourseLinkClicks(code) ==
    LET i == CodeQuery(code)
    IN  i /= 0 /\ \E j \in 1 .. Len(courses[i].sections) : courses[i].sections[j].links /= <<>>

GetCourseStatsFound(r) ==
    /\ At(r, "clicks", "find")
    /\ IF getCourseLinkClicks(ParamCode(req[r].code))
       THEN Reply(r, CREATED)
       ELSE Reply(r, NOT_FOUND)
    /\ UNCHANGED <<courses, reports, verifier, outbox, req, hits>>

\* GET /courses/:code, up to the await of Course.findOne
GetCourse(r) ==
    /\ Due(r)
    /\ \E b \in Sent(CourseReadBodies("info")) :
        /\ Arrives(r, b)
        /\ hits' = Counted(Chain.info, b)
        /\ IF Limited(Chain.info, b) THEN Reply(r, TOO_MANY)
           ELSE IF Present(ParamCode(b.code)) THEN Await(r, "find")
           ELSE Reply(r, BAD_REQUEST)
        /\ UNCHANGED <<courses, reports, verifier, outbox>>

GetCourseFound(r) ==
    /\ At(r, "info", "find")
    /\ IF CodeQuery(ParamCode(req[r].code)) /= 0
       THEN Reply(r, OK)
       ELSE Reply(r, NOT_FOUND)
    /\ UNCHANGED <<courses, reports, verifier, outbox, req, hits>>

----------------------------------------------------------------------------
(* POST /courses/ *)

\* up to the await of verifyReCaptcha
PostCourses(r) ==
    /\ Due(r)
    /\ \E b \in Sent(CourseBodies) :
        /\ Arrives(r, b)
        /\ hits' = Counted(Chain.course, b)
        /\ IF Limited(Chain.course, b) THEN Reply(r, TOO_MANY)
           ELSE IF Given(b.name) /\ Present(b.subject) /\ Present(b.number)
                   /\ Present(b.faculty) /\ Present(b.credits) /\ Given(b.captcha)
           THEN Await(r, "captcha")
           ELSE Reply(r, BAD_REQUEST)
        /\ UNCHANGED <<courses, reports, verifier, outbox>>

\* the captcha result, up to the await of Course.findOne
PostCoursesCaptcha(r) ==
    /\ At(r, "course", "captcha")
    /\ IF verifyReCaptcha(req[r].captcha)
       THEN Await(r, "find")
       ELSE Reply(r, BAD_REQUEST)
    /\ UNCHANGED <<courses, reports, verifier, outbox, req, hits>>

\* the store runs findOne; up to the await of Course.create
PostCoursesFind(r) ==
    /\ At(r, "course", "find")
    /\ IF CourseQuery(req[r]) /= 0
       THEN Reply(r, CONFLICT)
       ELSE Await(r, "write")
    /\ UNCHANGED <<courses, reports, verifier, outbox, req, hits>>

\* the store runs create
PostCoursesCreate(r) ==
    /\ At(r, "course", "write")
    /\ courses' = CreateCourse(req[r])
    /\ Reply(r, CREATED)
    /\ UNCHANGED <<reports, verifier, outbox, req, hits>>

----------------------------------------------------------------------------
(* POST /courses/:code/sections *)

PostSections(r) ==
    /\ Due(r)
    /\ \E b \in Sent(SectionBodies) :
        /\ Arrives(r, b)
        /\ hits' = Counted(Chain.section, b)
        /\ IF Limited(Chain.section, b) THEN Reply(r, TOO_MANY)
           ELSE IF Present(ParamCode(b.code)) /\ Given(b.name) /\ Given(b.captcha)
           THEN Await(r, "captcha")
           ELSE Reply(r, BAD_REQUEST)
        /\ UNCHANGED <<courses, reports, verifier, outbox>>

PostSectionsCaptcha(r) ==
    /\ At(r, "section", "captcha")
    /\ IF verifyReCaptcha(req[r].captcha)
       THEN Await(r, "find")
       ELSE Reply(r, BAD_REQUEST)
    /\ UNCHANGED <<courses, reports, verifier, outbox, req, hits>>

\* the store runs findOne; up to the await of Course.findOneAndUpdate
PostSectionsFind(r) ==
    /\ At(r, "section", "find")
    /\ IF SectionQuery(ParamCode(req[r].code), req[r].name) /= 0
       THEN Reply(r, CONFLICT)
       ELSE Await(r, "write")
    /\ UNCHANGED <<courses, reports, verifier, outbox, req, hits>>

\* the store runs findOneAndUpdate
PostSectionsPush(r) ==
    /\ At(r, "section", "write")
    /\ LET i == CodeQuery(ParamCode(req[r].code))
       IN  IF i = 0
           THEN Reply(r, NOT_FOUND) /\ UNCHANGED courses
           ELSE Reply(r, CREATED) /\ courses' = PushSection(i, req[r].name)
    /\ UNCHANGED <<reports, verifier, outbox, req, hits>>

----------------------------------------------------------------------------
(* POST /courses/:code/sections/:section/link *)

\* the checks without the comparison of the code
LinkCheckNoCode(b) ==
    IF ~(Present(ParamCode(b.code)) /\ Given(b.name) /\ Given(b.url)
         /\ Present(b.username) /\ b.vcode /= 0)
    THEN BAD_REQUEST
    ELSE IF ~hasCode(StripAt(b.username)) THEN GONE
    ELSE 0

\* the checks without the test for a record
LinkCheckNoRecord(b) ==
    IF ~(Present(ParamCode(b.code)) /\ Given(b.name) /\ Given(b.url)
         /\ Present(b.username) /\ b.vcode /= 0)
    THEN BAD_REQUEST
    ELSE IF ~checkCode(StripAt(b.username), b.vcode) THEN UNAUTHORIZED
    ELSE 0

\* the checks of the body and of the e-mail code: the status to answer with,
\* 0 to go on; type and terms are present in every request of the model
LinkCheck(b) ==
    IF ~(Present(ParamCode(b.code)) /\ Given(b.name) /\ Given(b.url)
         /\ Present(b.username) /\ b.vcode /= 0)
    THEN BAD_REQUEST
    ELSE IF ~hasCode(StripAt(b.username)) THEN GONE
    ELSE IF ~checkCode(StripAt(b.username), b.vcode) THEN UNAUTHORIZED
    ELSE 0

\* a record that is dropped by the check, whatever the code
LinkVerifierDrop(b) ==
    IF hasCode(StripAt(b.username))
    THEN [verifier EXCEPT ![StripAt(b.username)] = NoRecord]
    ELSE verifier

\* a record that outlives the check
LinkVerifierKeep(b) == verifier

\* what the checks leave of the Verifier: checkCode runs once hasCode passed
LinkVerifier(b) ==
    IF LinkCheck(b) \in {0, UNAUTHORIZED}
    THEN AfterCheck(StripAt(b.username), b.vcode)
    ELSE verifier

\* up to the await of Course.findOne
PostLink(r) ==
    /\ Due(r)
    /\ \E b \in Sent(LinkBodies) :
        /\ Known(b)
        /\ Arrives(r, b)
        /\ hits' = Counted(Chain.link, b)
        /\ IF Limited(Chain.link, b) THEN Reply(r, TOO_MANY)
           ELSE IF LinkCheck(b) = 0 THEN Await(r, "find")
           ELSE Reply(r, LinkCheck(b))
        /\ verifier' = IF Limited(Chain.link, b) THEN verifier ELSE LinkVerifier(b)
        /\ UNCHANGED <<courses, reports, outbox>>

\* the store runs findOne; up to the await of Course.findOneAndUpdate
PostLinkFind(r) ==
    /\ At(r, "link", "find")
    /\ IF LinkQuery(ParamCode(req[r].code), req[r].name, req[r].url) /= 0
       THEN Reply(r, CONFLICT)
       ELSE Await(r, "write")
    /\ UNCHANGED <<courses, reports, verifier, outbox, req, hits>>

\* the store runs findOneAndUpdate
PostLinkPush(r) ==
    /\ At(r, "link", "write")
    /\ LET i == SectionQuery(ParamCode(req[r].code), req[r].name)
       IN  IF i = 0
           THEN Reply(r, NOT_FOUND) /\ UNCHANGED courses
           ELSE Reply(r, CREATED) /\ courses' = PushLink(i, req[r].name, req[r].url)
    /\ UNCHANGED <<reports, verifier, outbox, req, hits>>

----------------------------------------------------------------------------
(* POST /courses/:code/sections/:section/link/click *)

PostClick(r) ==
    /\ Due(r)
    /\ \E b \in Sent(ClickBodies) :
        /\ Arrives(r, b)
        /\ hits' = Counted(Chain.click, b)
        /\ IF Limited(Chain.click, b) THEN Reply(r, TOO_MANY)
           ELSE IF Given(b.url) /\ Present(ParamCode(b.code)) /\ Given(b.name)
           THEN Await(r, "write")
           ELSE Reply(r, BAD_REQUEST)
        /\ UNCHANGED <<courses, reports, verifier, outbox>>

\* the store runs findOneAndUpdate; a filter that matches nothing updates nothing
PostClickUpdate(r) ==
    /\ At(r, "click", "write")
    /\ LET i == LinkQuery(ParamCode(req[r].code), req[r].name, req[r].url)
       IN  courses' = IF i = 0 THEN courses ELSE IncClicks(i, req[r].url)
    /\ Reply(r, CREATED)
    /\ UNCHANGED <<reports, verifier, outbox, req, hits>>

----------------------------------------------------------------------------
(* POST /verify/create *)

PostVerify(r) ==
    /\ Due(r)
    /\ \E b \in Sent(VerifyBodies) :
        /\ Known(b)
        /\ Arrives(r, b)
        /\ hits' = Counted(Chain.verify, b)
        /\ IF Limited(Chain.verify, b) THEN Reply(r, TOO_MANY)
           ELSE IF Present(b.username) /\ Given(b.captcha)
           THEN Await(r, "captcha")
           ELSE Reply(r, BAD_REQUEST)
        /\ UNCHANGED <<courses, reports, verifier, outbox>>

\* the captcha result, the cooldown, createCode and the call of sendCode
PostVerifyCaptcha(r) ==
    /\ At(r, "verify", "captcha")
    /\ LET username == StripAt(req[r].username)
           codeTime == checkCodeTime(username)
       IN  IF ~verifyReCaptcha(req[r].captcha)
           THEN Reply(r, BAD_REQUEST) /\ UNCHANGED <<verifier, outbox, req>>
           ELSE IF TruthyNum(codeTime) /\ codeTime < Cooldown
           THEN Reply(r, CREATED) /\ UNCHANGED <<verifier, outbox, req>>
           ELSE \E newCode \in Codes, result \in SendResults :
                    /\ verifier' = createCode(username, newCode)
                    /\ outbox' = Append(outbox, [to |-> username, code |-> newCode,
                                                 statusCode |-> result])
                    /\ req' = [req EXCEPT ![r].send = result]
                    /\ Await(r, "send")
    /\ UNCHANGED <<courses, reports, hits>>

\* the provider's answer to sendCode
PostVerifySent(r) ==
    /\ At(r, "verify", "send")
    /\ IF req[r].send = UNPROCESSABLE THEN Reply(r, UNPROCESSABLE)
       ELSE IF req[r].send /= ACCEPTED THEN Reply(r, SERVER_ERROR)
       ELSE Reply(r, CREATED)
    /\ UNCHANGED <<courses, reports, verifier, outbox, req, hits>>

----------------------------------------------------------------------------
(* POST /report *)

PostReport(r) ==
    /\ Due(r)
    /\ \E b \in Sent(ReportBodies) :
        /\ Arrives(r, b)
        /\ hits' = Counted(Chain.report, b)
        /\ IF Limited(Chain.report, b) THEN Reply(r, TOO_MANY)
           ELSE IF Given(b.url) /\ Given(b.name) /\ Given(b.captcha)
           THEN Await(r, "captcha")
           ELSE Reply(r, BAD_REQUEST)
        /\ UNCHANGED <<courses, reports, verifier, outbox>>

PostReportCaptcha(r) ==
    /\ At(r, "report", "captcha")
    /\ IF verifyReCaptcha(req[r].captcha)
       THEN Await(r, "write")
       ELSE Reply(r, BAD_REQUEST)
    /\ UNCHANGED <<courses, reports, verifier, outbox, req, hits>>

\* the store runs Report.create
PostReportCreate(r) ==
    /\ At(r, "report", "write")
    /\ reports' = Append(reports, [link_id |-> req[r].url, reason |-> req[r].name])
    /\ Reply(r, CREATED)
    /\ UNCHANGED <<courses, verifier, outbox, req, hits>>

----------------------------------------------------------------------------
(* Exceptions *)

\* the call the handler of r awaits throws.  Inside a try block the catch
\* calls errorHandler; the captcha call of POST /report is awaited before the
\* try block, so the promise of the handler is rejected and nothing answers.
Throws(r) ==
    /\ pc[r] \in {"captcha", "find", "write", "send"}
    /\ IF At(r, "report", "captcha")
       THEN pc' = [pc EXCEPT ![r] = "rejected"] /\ UNCHANGED resp
       ELSE Reply(r, SERVER_ERROR)
    /\ UNCHANGED <<courses, reports, verifier, outbox, req, hits>>

----------------------------------------------------------------------------
(* Time *)

\* a minute passes
Tick ==
    /\ \E id \in Identities : hasCode(id)
    /\ verifier' = [id \in Identities |-> Aged(verifier[id])]
    /\ hits' = AfterMinute
    /\ UNCHANGED <<courses, reports, outbox, req, pc, resp>>

----------------------------------------------------------------------------
(* Specifications *)

\* a course with the sections A, which holds the link u1, and B
Stocked ==
    <<[code |-> CodeX,
       sections |-> <<[name |-> "A", links |-> <<NewLink("u1")>>], NewSection("B")>>]>>

Stores == {<<>>, <<NewCourse(CodeX)>>, Stocked}

\* the record and the e-mail of a code that was issued and delivered
Issued == [code |-> 1, age |-> 0]
Mail(id) == [to |-> id, code |-> 1, statusCode |-> ACCEPTED]

\* n requests that are yet to arrive
Requests(n) ==
    /\ req = [r \in 1 .. n |-> Blank]
    /\ pc = [r \in 1 .. n |-> "idle"]
    /\ resp = [r \in 1 .. n |-> 0]

InitRequests == Requests(NumReqs)

\* the limiters start a window; the per-caller ones count the given callers
Fresh(callers) ==
    [t \in DOMAIN Limiters |->
        [k \in IF Limiters[t].key = "ip" THEN callers ELSE {Limiters[t].key} |-> 0]]

\* the hierarchy: any store, and a code issued to every identity
Init ==
    /\ courses \in Stores
    /\ reports = <<>>
    /\ verifier = [id \in {StripAt(u) : u \in Usernames} |-> Issued]
    /\ outbox = <<Mail(<<"a", "y">>), Mail(<<"b", "y">>)>>
    /\ InitRequests
    /\ hits = Fresh({"ip1"})

Next ==
    \E r \in Reqs :
        \/ PostCourses(r) \/ PostCoursesCaptcha(r) \/ PostCoursesFind(r)
        \/ PostCoursesCreate(r)
        \/ PostSections(r) \/ PostSectionsCaptcha(r) \/ PostSectionsFind(r)
        \/ PostSectionsPush(r)
        \/ PostLink(r) \/ PostLinkFind(r) \/ PostLinkPush(r)
        \/ PostClick(r) \/ PostClickUpdate(r)

Spec == Init /\ [][Next]_vars

\* the verification codes: no code issued yet, and time passes
InitVerify ==
    /\ courses = Stocked
    /\ reports = <<>>
    /\ \/ verifier = [id \in {<<"a", "y">>} |-> NoRecord] /\ outbox = <<>>
       \/ verifier = [id \in {<<"a", "y">>} |-> Issued] /\ outbox = <<Mail(<<"a", "y">>)>>
    /\ InitRequests
    /\ hits = Fresh({"ip1"})

NextVerify ==
    \/ \E r \in Reqs :
        \/ PostVerify(r) \/ PostVerifyCaptcha(r) \/ PostVerifySent(r)
        \/ PostLink(r) \/ PostLinkFind(r) \/ PostLinkPush(r)
    \/ Tick

SpecVerify == InitVerify /\ [][NextVerify]_vars

\* every POST route
NextAll ==
    \E r \in Reqs :
        \/ PostCourses(r) \/ PostCoursesCaptcha(r) \/ PostCoursesFind(r)
        \/ PostCoursesCreate(r)
        \/ PostSections(r) \/ PostSectionsCaptcha(r) \/ PostSectionsFind(r)
        \/ PostSectionsPush(r)
        \/ PostLink(r) \/ PostLinkFind(r) \/ PostLinkPush(r)
        \/ PostClick(r) \/ PostClickUpdate(r)
        \/ PostVerify(r) \/ PostVerifyCaptcha(r) \/ PostVerifySent(r)
        \/ PostReport(r) \/ PostReportCaptcha(r) \/ PostReportCreate(r)

SpecAll == Init /\ [][NextAll]_vars

\* every POST route, with calls that throw
NextThrows ==
    \E r \in Reqs :
        \/ PostCourses(r) \/ PostCoursesCaptcha(r) \/ PostCoursesFind(r)
        \/ PostCoursesCreate(r)
        \/ PostSections(r) \/ PostSectionsCaptcha(r) \/ PostSectionsFind(r)
        \/ PostSectionsPush(r)
        \/ PostLink(r) \/ PostLinkFind(r) \/ PostLinkPush(r)
        \/ PostClick(r) \/ PostClickUpdate(r)
        \/ PostVerify(r) \/ PostVerifyCaptcha(r) \/ PostVerifySent(r)
        \/ PostReport(r) \/ PostReportCaptcha(r) \/ PostReportCreate(r)
        \/ Throws(r)

SpecThrows == Init /\ [][NextThrows]_vars

\* every limiter counted all but one of the requests it lets pass in a window
OneLeft(callers) ==
    [t \in DOMAIN Limiters |->
        [k \in DOMAIN Fresh(callers)[t] |-> Limiters[t].max - 1]]

\* every route, late in the windows of the limiters
InitLimits ==
    /\ courses = Stocked
    /\ reports = <<>>
    /\ verifier = [id \in {<<"a", "y">>} |-> Issued]
    /\ outbox = <<Mail(<<"a", "y">>)>>
    /\ Requests(NumReqs)
    /\ hits = OneLeft({"ip1"})

NextLimits ==
    \E r \in Reqs :
        \/ PostCourses(r) \/ PostCoursesCaptcha(r) \/ PostCoursesFind(r)
        \/ PostCoursesCreate(r)
        \/ PostSections(r) \/ PostSectionsCaptcha(r) \/ PostSectionsFind(r)
        \/ PostSectionsPush(r)
        \/ PostLink(r) \/ PostLinkFind(r) \/ PostLinkPush(r)
        \/ PostClick(r) \/ PostClickUpdate(r)
        \/ PostVerify(r) \/ PostVerifyCaptcha(r) \/ PostVerifySent(r)
        \/ PostReport(r) \/ PostReportCaptcha(r) \/ PostReportCreate(r)
        \/ GetRoot(r)
        \/ GetCourses(r) \/ GetCoursesFound(r)
        \/ GetStats(r) \/ GetStatsFound(r)
        \/ GetCourseStats(r) \/ GetCourseStatsFound(r)
        \/ GetCourse(r) \/ GetCourseFound(r)

SpecLimits == InitLimits /\ [][NextLimits]_vars

\* a burst of requests of two callers to a route behind linkClicksLimiter
InitTight ==
    /\ courses = Stocked
    /\ reports = <<>>
    /\ verifier = [id \in {<<"a", "y">>} |-> NoRecord]
    /\ outbox = <<>>
    /\ Requests(Burst)
    /\ hits = Fresh({"ip1", "ip2"})

NextTight ==
    \/ \E r \in Reqs : Tight(r)
    \/ WindowEnds("linkClicksLimiter")

SpecTight == InitTight /\ [][NextTight]_vars

\* the hits of verifySpamLimiter late in its window
Late == {0, Limiters["verifySpamLimiter"].max - 1}

\* requests of two callers for verification codes, early or late in the
\* window of verifySpamLimiter
InitGlobal ==
    /\ courses = Stocked
    /\ reports = <<>>
    /\ verifier = [id \in {<<"a", "y">>} |-> NoRecord]
    /\ outbox = <<>>
    /\ Requests(NumReqs)
    /\ \E n \in Late :
           hits = [Fresh({"ip1", "ip2"}) EXCEPT !["verifySpamLimiter"]["ALL"] = n]

NextGlobal ==
    \/ \E r \in Reqs : PostVerify(r) \/ PostVerifyCaptcha(r) \/ PostVerifySent(r)
    \/ WindowEnds("verifyLimiter")
    \/ WindowEnds("verifySpamLimiter")

SpecGlobal == InitGlobal /\ [][NextGlobal]_vars

\* a burst of clicks of one caller within a window of every limiter
InitClicks ==
    /\ courses = Stocked
    /\ reports = <<>>
    /\ verifier = [id \in {<<"a", "y">>} |-> NoRecord]
    /\ outbox = <<>>
    /\ Requests(Burst)
    /\ hits = Fresh({"ip1"})

NextClicks == \E r \in Reqs : PostClick(r) \/ PostClickUpdate(r)

SpecClicks == InitClicks /\ [][NextClicks]_vars

----------------------------------------------------------------------------
(* Properties of the hierarchy, under Spec *)

\* the request was answered
Answered(r, status) == pc[r] = "done" /\ resp[r] = status

\* the requests of one kind
Of(kind) == {r \in Reqs : req[r].kind = kind}

\* two requests name the same section of the same course
SameSection(r, q) ==
    ParamCode(req[r].code) = ParamCode(req[q].code) /\ req[r].name = req[q].name

NoTwinSections ==
    \A i \in 1 .. Len(courses) : \A j, k \in 1 .. Len(courses[i].sections) :
        j /= k => courses[i].sections[j].name /= courses[i].sections[k].name

NoTwinLinks ==
    \A i \in 1 .. Len(courses) : \A j \in 1 .. Len(courses[i].sections) :
        \A k, l \in 1 .. Len(courses[i].sections[j].links) :
            k /= l => courses[i].sections[j].links[k].url
                        /= courses[i].sections[j].links[l].url

NoTwinCourses ==
    \A i, j \in 1 .. Len(courses) : i /= j => courses[i].code /= courses[j].code

\* C1: of the requests that create the same section of a course, at most one
\* is answered 201, and no course ever holds two sections of the same name.
C1_OneSectionPerName ==
    /\ NoTwinSections
    /\ \A r, q \in Of("section") :
            r /= q /\ SameSection(r, q) => ~(Answered(r, CREATED) /\ Answered(q, CREATED))

\* C2: of the verified requests that create the same link of a section, at
\* most one is answered 201, and no section ever holds two links of the same url.
C2_OneLinkPerUrl ==
    /\ NoTwinLinks
    /\ \A r, q \in Of("link") :
            r /= q /\ SameSection(r, q) /\ req[r].url = req[q].url
                => ~(Answered(r, CREATED) /\ Answered(q, CREATED))

\* the link u1 of section A of the first course, which only Stocked holds and
\* which is there from the start: no request creates a section named A
HasA == courses /= <<>> /\ HasSection(courses[1], "A")
ClicksOfA == courses[1].sections[1].links[1].clicks

\* the click requests the store has run the update of
Clicked(name, url) ==
    {r \in Of("click") : pc[r] = "done" /\ req[r].name = name /\ req[r].url = url}

AllClicks ==
    {<<i, j, k>> \in (1 .. NumReqs + 1) \X (1 .. NumReqs + 2) \X (1 .. NumReqs + 1) :
        /\ i <= Len(courses)
        /\ j <= Len(courses[i].sections)
        /\ k <= Len(courses[i].sections[j].links)}

\* no step removes a link or lowers its counter
ClicksGrow ==
    \A p \in AllClicks :
        /\ p[1] <= Len(courses') /\ p[2] <= Len(courses'[p[1]].sections)
        /\ p[3] <= Len(courses'[p[1]].sections[p[2]].links)
        /\ courses'[p[1]].sections[p[2]].links[p[3]].clicks
               >= courses[p[1]].sections[p[2]].links[p[3]].clicks

\* C3: when N click requests for the link u1 of section A have run, in any
\* interleaving with each other and with other requests, its counter is N
\* above the 0 it started at; and no step lowers a counter or removes a link.
\* (The update filters the links by url alone, so the count is of the runs in
\* which no click named section B with the same url.)
C3_ClicksCounted ==
    /\ [](HasA /\ Clicked("B", "u1") = {}
            => ClicksOfA = Cardinality(Clicked("A", "u1")))
    /\ [][ClicksGrow]_vars

\* C3: two requests clicked the link and its counter is 2
C3_Witness ==
    HasA /\ Clicked("B", "u1") = {} /\ Cardinality(Clicked("A", "u1")) = 2
         /\ ClicksOfA = 2

\* C4: no two stored courses have the same code.
C4_CodesUnique == NoTwinCourses

\* the course code of the body is the code of a stored course
Stored(b) == \E i \in 1 .. Len(courses) : courses[i].code = DerivedCode(b)

\* C5: when the handler of POST /courses looks a course up whose derived code
\* is the code of a stored course, it answers 409 and leaves the courses alone.
C5_DuplicateIsConflict ==
    [][\A r \in Reqs :
          At(r, "course", "find") /\ pc'[r] /= "find" /\ Stored(req[r])
              => resp'[r] = CONFLICT /\ courses' = courses]_vars

----------------------------------------------------------------------------
(* Properties of the verification codes, under SpecVerify *)

\* request r arrives in this step, as a request of this kind
Arriving(r, kind) == pc[r] = "idle" /\ pc'[r] /= "idle" /\ req'[r].kind = kind

\* the record of the identity a body names, before the step
RecordOf(b) == verifier[StripAt(b.username)]

\* the link requests whose code was checked and found right
Verified(id) ==
    {r \in Of("link") : StripAt(req[r].username) = id
                          /\ (pc[r] \in {"find", "write"}
                              \/ resp[r] \in {CREATED, CONFLICT, NOT_FOUND})}

\* the codes issued to an identity, each handed to the e-mail provider
Issuances(id) == {k \in 1 .. Len(outbox) : outbox[k].to = id}

\* C6: a link request goes on to the store only if, when it arrives, the
\* identity has a record and the code sent is the code of the record; without
\* a record it is answered 410, with another code 401, the courses unchanged;
\* and only a link request that went on to the store appends a link.
C6_LinksNeedLiveCode ==
    [][/\ \A r \in Reqs :
            Arriving(r, "link") =>
                /\ RecordOf(req'[r]) = NoRecord
                       => resp'[r] = GONE /\ courses' = courses
                /\ RecordOf(req'[r]) /= NoRecord
                     /\ RecordOf(req'[r]).code /= req'[r].vcode
                       => resp'[r] = UNAUTHORIZED /\ courses' = courses
                /\ pc'[r] /= "done"
                       => /\ RecordOf(req'[r]) /= NoRecord
                          /\ RecordOf(req'[r]).code = req'[r].vcode
       /\ \A r \in Of("link") :
            /\ pc'[r] = "find" => pc[r] = "find"
            /\ pc'[r] = "write" => pc[r] \in {"find", "write"}
       /\ courses' /= courses => \E r \in Reqs : At(r, "link", "write")]_vars

\* C6: one link request was let through and created its link, another was
\* answered 410 for want of a record
C6_Witness ==
    \E r, q \in Of("link") : Answered(r, CREATED) /\ Answered(q, GONE)

\* C7: a request to a content-creating route whose captcha token is absent or
\* rejected is answered 400 and creates nothing: it is never answered 201, the
\* answer of a request that created what it asked for.
C7_CaptchaGatesWrites ==
    \A r \in Reqs :
        req[r].kind \in {"course", "section", "link", "verify", "report"}
          /\ ~verifyReCaptcha(req[r].captcha)
            => resp[r] /= CREATED

\* C8: a POST /verify/create for an identity whose code is younger than the
\* cooldown, from age 0 on, is answered 201, issues and sends no code and
\* leaves the record as it is.
C8_CooldownKeepsCode ==
    [][\A r \in Reqs :
          At(r, "verify", "captcha") /\ pc'[r] /= "captcha"
            /\ verifyReCaptcha(req[r].captcha)
            /\ RecordOf(req[r]) /= NoRecord /\ RecordOf(req[r]).age < Cooldown
              => resp'[r] = CREATED /\ verifier' = verifier /\ outbox' = outbox]_vars

\* C9: a link request with another code than the one of the identity's record
\* is answered 401 and leaves the Verifier and the courses as they are; a
\* request with the code of the record is let through.
C9_WrongCodeKeepsRecord ==
    [][\A r \in Reqs :
          Arriving(r, "link") /\ RecordOf(req'[r]) /= NoRecord =>
              IF RecordOf(req'[r]).code /= req'[r].vcode
              THEN resp'[r] = UNAUTHORIZED /\ verifier' = verifier
                     /\ courses' = courses
              ELSE pc'[r] = "find"]_vars

\* C9: a request was answered 401 and a later one of the same identity was
\* let through with no code issued in between
C9_Witness ==
    \E r, q \in Of("link") :
        /\ r < q /\ req[r].username = req[q].username
        /\ Answered(r, UNAUTHORIZED) /\ Answered(q, CREATED)
        /\ Cardinality(Issuances(StripAt(req[r].username))) = 1

----------------------------------------------------------------------------
(* More properties of the verification codes, under SpecVerify *)

\* a minute passes in this step
MinutePasses == pc' = pc /\ verifier' /= verifier

\* C11: a code lives for less than the validity window: the minute that makes
\* it TTL minutes old removes the record, and a link request for an identity
\* without a record is answered 410 and changes nothing, whatever code it sends.
C11_ExpiredIsGone ==
    /\ [](\A id \in Identities : verifier[id] /= NoRecord => verifier[id].age < TTL)
    /\ [][\A id \in Identities :
             MinutePasses /\ verifier[id] /= NoRecord /\ verifier[id].age + 1 >= TTL
                 => verifier'[id] = NoRecord]_vars
    /\ [][\A r \in Reqs :
             Arriving(r, "link") /\ RecordOf(req'[r]) = NoRecord
                 => resp'[r] = GONE /\ courses' = courses /\ verifier' = verifier]_vars

\* C11: a link request sent the only code that was issued to its identity, no
\* request used the code up, and it was answered 410
C11_Witness ==
    \E q \in Of("link") :
        /\ Answered(q, GONE)
        /\ Verified(StripAt(req[q].username)) = {}
        /\ Cardinality(Issuances(StripAt(req[q].username))) = 1
        /\ \A k \in Issuances(StripAt(req[q].username)) : outbox[k].code = req[q].vcode

\* the last e-mail with a code for the identity
LastMail(id) == outbox[CHOOSE k \in Issuances(id) : \A h \in Issuances(id) : h <= k]

\* C20: POST /verify/create takes the already-sent path, answering 201 without
\* issuing a code, only when the delivery of the stored code was accepted by
\* the e-mail provider.
\* the last delivery to the identity failed and a request was told so
FailureReported(id) ==
    /\ \E q \in Of("verify") :
           StripAt(req[q].username) = id /\ resp[q] \in {UNPROCESSABLE, SERVER_ERROR}
    /\ LastMail(id).statusCode /= ACCEPTED

\* C20: POST /verify/create never takes the already-sent path, answering 201
\* without issuing a code, for an identity whose last delivery failed and was
\* reported as failed: a 201 means the stored code was accepted for delivery.
C20_ResendAfterFailure ==
    [][\A r \in Reqs :
          At(r, "verify", "captcha") /\ resp'[r] = CREATED
              => ~FailureReported(StripAt(req[r].username))]_vars

----------------------------------------------------------------------------
(* More properties of the hierarchy, under Spec *)

\* the links a click names: those of that url in a section of that name of a
\* course of that code
Named(b) ==
    {p \in AllClicks :
        /\ courses[p[1]].code = ParamCode(b.code)
        /\ courses[p[1]].sections[p[2]].name = b.name
        /\ courses[p[1]].sections[p[2]].links[p[3]].url = b.url}

\* the store runs the update of click request r in this step
Clicking(r) == At(r, "click", "write") /\ pc'[r] = "done"

\* C16: a click that names no stored link is answered 201 and leaves every
\* course, section, link and counter as it is.
C16_MissIsNoOp ==
    [][\A r \in Reqs :
          Clicking(r) /\ Named(req[r]) = {}
              => resp'[r] = CREATED /\ courses' = courses]_vars

\* C18: a click raises no counter but those of the links it names: the links
\* of other sections and of other urls keep their counters.
C18_OnlyNamedLink ==
    [][\A r \in Reqs :
          Clicking(r) =>
              \A p \in AllClicks \ Named(req[r]) :
                  courses'[p[1]].sections[p[2]].links[p[3]].clicks
                      = courses[p[1]].sections[p[2]].links[p[3]].clicks]_vars

\* the section a link request names holds a link of the url it sends
SectionHolds(b) ==
    \E i \in 1 .. Len(courses) : \E j \in 1 .. Len(courses[i].sections) :
        /\ courses[i].code = ParamCode(b.code)
        /\ courses[i].sections[j].name = b.name
        /\ HasLink(courses[i].sections[j], b.url)

\* C19: the duplicate check of a link request answers 409 exactly when the
\* section it names holds a link of that url; a link of that url in another
\* section of the course does not stand in its way.
C19_UrlUniquePerSection ==
    [][\A r \in Reqs :
          At(r, "link", "find") /\ pc'[r] /= "find"
              => (resp'[r] = CONFLICT <=> SectionHolds(req[r]))]_vars

----------------------------------------------------------------------------
(* Properties of the rate limiters *)

RECURSIVE Sum(_, _)
\* the sum of f over the set S
Sum(f, S) ==
    IF S = {} THEN 0
    ELSE LET k == CHOOSE k \in S : TRUE IN f[k] + Sum(f, S \ {k})

\* the requests of a kind that a caller sent
From(kind, ip) == {r \in Of(kind) : req[r].ip = ip}

\* the requests of the caller of r, of the kind of r, that arrived before r
Earlier(r) == {q \in From(req[r].kind, req[r].ip) : q < r}

\* every request of the kind arrived in the window the limiter is in: it
\* counted them all
OneWindow(t, kind) == Sum(hits[t], DOMAIN hits[t]) = Cardinality(Of(kind))

SpamHits == hits["verifySpamLimiter"]["ALL"]

\* C13: a request for a verification code reaches the handler only if its
\* caller sent none in this minute and fewer than 300 requests of any caller
\* reached verifySpamLimiter in its window; every request that passes the
\* per-caller limiter is counted under the one global key, whoever sent it,
\* and the global count falls only when the window of the limiter ends.
C13_GlobalCounter ==
    /\ [][\A r \in Reqs :
             Arriving(r, "verify") /\ resp'[r] /= TOO_MANY
                 => /\ hits["verifyLimiter"][req'[r].ip] < 1
                    /\ SpamHits < 300
                    /\ SpamHits' = SpamHits + 1]_vars
    /\ [][\A r \in Reqs :
             Arriving(r, "verify") /\ hits["verifyLimiter"][req'[r].ip] < 1
                 => /\ SpamHits' = SpamHits + 1
                    /\ resp'[r] = TOO_MANY <=> SpamHits >= 300]_vars
    /\ [][SpamHits' < SpamHits => SpamHits' = 0 /\ pc' = pc]_vars

\* C13: the first request of a caller in this minute was answered 429 because
\* an earlier request of another caller was the 300th of the day
C13_Witness ==
    \E r, q \in Of("verify") :
        /\ Answered(r, TOO_MANY) /\ Earlier(r) = {}
        /\ hits["verifyLimiter"][req[r].ip] = 1
        /\ q < r /\ req[q].ip /= req[r].ip /\ resp[q] /= TOO_MANY
        /\ SpamHits = 301

\* the requests of a kind that a caller sent and no limiter answered
Admitted(kind, ip) == {r \in From(kind, ip) : pc[r] /= "idle" /\ resp[r] /= TOO_MANY}

\* C14: the limiters of the click route admit at most 3 clicks of one caller
\* within one window of 60 s.
C14_ClicksAreTight ==
    \A ip \in Callers : Cardinality(Admitted("click", ip)) <= Limiters["linkClicksLimiter"].max

\* a limiter of the route of the arriving request r counted max requests of
\* its key
OverLimit(r) ==
    \E i \in 1 .. Len(Chain[req'[r].kind]) :
        LET t == Chain[req'[r].kind][i]
        IN  hits[t][IF Limiters[t].key = "ip" THEN req'[r].ip ELSE "ALL"] >= Limiters[t].max

\* C15: on every route a request that a limiter rejects is answered 429 in
\* the step it arrives in, before the handler runs: it awaits no captcha,
\* e-mail or store call and leaves the courses, the reports, the verification
\* records and the e-mails as they are; a request no limiter rejects is not
\* answered 429.
C15_RejectedBeforeHandler ==
    [][\A r \in Reqs :
          pc[r] = "idle" /\ pc'[r] /= "idle"
              => IF OverLimit(r)
                 THEN /\ pc'[r] = "done" /\ resp'[r] = TOO_MANY
                      /\ UNCHANGED <<courses, reports, verifier, outbox>>
                 ELSE resp'[r] /= TOO_MANY]_vars

\* C15: a report with every field and an accepted captcha was answered 429
\* after the report of the same caller before it was stored
C15_Witness ==
    \E r \in Of("report") :
        /\ Answered(r, TOO_MANY) /\ req[r].captcha = "good"
        /\ \E q \in Earlier(r) : Answered(q, CREATED)
        /\ Len(reports) = 1

----------------------------------------------------------------------------
(* Properties of the failures *)

\* C17: a handler never ends without an answer: every request whose handler
\* returned or threw was answered, a call that threw with 500.
C17_ThrowsAreAnswered ==
    \A r \in Reqs : pc[r] \in {"done", "rejected"} => resp[r] /= 0

====
